---- MODULE Spec2Model ----
\* Model of the Selenium parsers of selenium_nalog_parsers: BaseParser and the four
\* workflows ArbitrParser, RomParser, NpdParser, InnParser, run by a caller through
\* the context manager (main() of each parser file).
\*
\* Time is counted in ticks. One tick is what one poll sleep of WebDriverWait or one
\* poll of the driver's implicit wait lets pass; the timeouts of the code are taken
\* as that many ticks. The page is the environment: between any two WebDriver
\* commands of the program it may change any element the program can still look at
\* (so the time.sleep pauses of ArbitrParser add no behaviour there; they count where
\* the page follows a schedule).
EXTENDS Integers, Sequences, FiniteSets, TLC

\* ---------------------------------------------------------------- bounds
\* largest session timeout a caller passes to the constructor
MaxTimeout == 2
\* longest text (in tokens) an element of the page shows
MaxTextLen == 3
\* latest tick at which an element of a scheduled page appears
Horizon == 6

\* ---------------------------------------------------------------- program constants
\* _close_notification: wait_for_element_clickable(..., timeout=5)
CloseNotificationTimeout == 5
\* _check_entry_validation / _check_for_errors: timeout=2
ValidationTimeout == 2
\* _check_for_captcha: timeout=3
CaptchaTimeout == 3
\* timeout: Optional = None, the default of the wait helpers of BaseParser
NoTimeout == 0
\* ArbitrParser: time.sleep(uniform(1, 1.5)) after a command, in ticks
SleepTicks == 1

Kinds == {"ArbitrParser", "RomParser", "NpdParser", "InnParser"}

\* exceptions.py
DomainErrors ==
  {"UndefinedError", "ServiceUnavailableError", "FieldFormatError",
   "InnNotFoundError", "DataVerificationError", "ServiceCaptchaError"}

\* An element of the page is absent from the DOM, present but not displayed (or not
\* enabled), or displayed.
ElemStates == {"absent", "hidden", "visible"}

Range(s) == {s[i] : i \in 1..Len(s)}

\* ---------------------------------------------------------------- locators
\* InnParser._fill_personal_info: the fields in the order they are filled
InnFields == <<"fam", "nam", "otch", "bdate", "docno">>

\* InnParser._bypass_personal_data_block: the consent checkbox, then the confirm button
InnBypass == <<"unichk_0", "btnContinue">>

\* NpdParser._check_entry_validation: the validators any_of races over
NpdValidators ==
  <<"RequiredFieldValidator1", "cv_Inn", "RequiredFieldValidator2", "CustomValidator1">>

\* _wait_for_result_display: the markers in the order any_of evaluates them
\* (NpdParser._get_result_text waits for its one result element)
RaceOrder(k) ==
  CASE k = "ArbitrParser" -> <<"b-noResults", "b-results">>
    [] k = "RomParser"    -> <<"pnlData", "pnlNoData">>
    [] k = "NpdParser"    -> <<"content_div5">>
    [] k = "InnParser"    -> <<"result_0", "result_1", "result_3", "result_err">>

\* a variant of ClassifyOrder: the if/elif chain written in the opposite order
ClassifyOrderReversed(k) ==
  CASE k = "ArbitrParser" -> <<"b-results", "b-noResults">>
    [] k = "RomParser"    -> <<"pnlData", "pnlNoData">>
    [] k = "NpdParser"    -> <<"content_div5">>
    [] k = "InnParser"    -> <<"result_err", "result_3", "result_1", "result_0">>

\* _check_result / _parse_result: the markers in the order of the if/elif chain
ClassifyOrder(k) ==
  CASE k = "ArbitrParser" -> <<"b-noResults", "b-results">>
    [] k = "RomParser"    -> <<"pnlNoData", "pnlData">>
    [] k = "NpdParser"    -> <<"content_div5">>
    [] k = "InnParser"    -> <<"result_0", "result_1", "result_3", "result_err">>

Terminal(k) == Range(RaceOrder(k))

\* What the branch of the if/elif chain taken for marker m does: the value it
\* returns, the error it raises, or "read" (InnParser reads resultInn).
MarkerOutcome(k, m) ==
  CASE m = "b-noResults" -> "False"
    [] m = "b-results"   -> "True"
    [] m = "pnlNoData"   -> "False"
    [] m = "pnlData"     -> "True"
    [] m = "result_0"    -> "InnNotFoundError"
    [] m = "result_1"    -> "read"
    [] m = "result_3"    -> "DataVerificationError"
    [] m = "result_err"  -> "ServiceUnavailableError"
    [] OTHER             -> "UndefinedError"

AllElems ==
  {"close_btn", "sug-participants", "b-form-submit", "b-noResults", "b-results",
   "query", "pnlSearch_button", "field-errors", "pnlData", "pnlNoData",
   "tbINN", "tbDate", "btSend", "content_div5", "uniDialogData", "resultInn",
   "btn_send", "result_0", "result_1", "result_3", "result_err"}
  \cup Range(InnFields) \cup Range(InnBypass) \cup Range(NpdValidators)

\* The locators the WebDriver command sequence of method p (call number a of it)
\* looks for: a one-element sequence, or the conditions of an any_of.
Conds(k, p, a) ==
  CASE p = "_close_notification" -> <<"close_btn">>
    [] p = "_input_inn" ->
         IF k = "ArbitrParser" THEN <<"sug-participants">> ELSE <<"query">>
    [] p = "_submit_search" ->
         IF k = "ArbitrParser" THEN <<"b-form-submit">> ELSE <<"pnlSearch_button">>
    [] p = "_fill_inn_field" -> <<"tbINN">>
    [] p = "_fill_date_field" -> <<"tbDate">>
    [] p = "_submit_form" ->
         IF k = "NpdParser" THEN <<"btSend">> ELSE <<"btn_send">>
    [] p = "_check_entry_validation" ->
         IF k = "NpdParser" THEN NpdValidators ELSE <<"field-errors">>
    [] p = "_bypass_personal_data_block" -> <<InnBypass[a]>>
    [] p = "_fill_field" -> <<InnFields[a]>>
    [] p = "_check_for_errors" -> <<"field-errors">>
    [] p = "_check_for_captcha" -> <<"uniDialogData">>
    [] p = "_wait_for_result_display" -> RaceOrder(k)
    [] p = "_get_result_text" -> RaceOrder(k)
    [] p = "_is_element_displayed" -> <<ClassifyOrder(k)[a]>>
    [] p = "resultInn" -> <<"resultInn">>
    [] OTHER -> <<>>

\* The elements the program can still look at while it is in method p: those of the
\* command sequence; during the race every terminal marker; during the
\* classification the markers the if/elif chain has not passed yet. The captcha
\* dialog of InnParser, looked at by _check_for_captcha, is followed on through the
\* race that comes next.
Live(k, p, a) ==
  IF p = "_wait_for_result_display"
  THEN Terminal(k) \cup (IF k = "InnParser" THEN {"uniDialogData"} ELSE {})
  ELSE IF p = "_is_element_displayed"
  THEN {ClassifyOrder(k)[j] : j \in a..Len(ClassifyOrder(k))}
  ELSE Range(Conds(k, p, a))

\* ---------------------------------------------------------------- texts
\* A text is a sequence of tokens: the two words of the known phrases ("ne" and
\* "yavlyaetsya", transliterated), some other
\* word, a blank; for InnParser an INN and a blank. Adjacent word tokens form one
\* word (there is no \b between them).
Tokens(k) ==
  IF k = "InnParser" THEN {"123456789012", " "} ELSE {"ne", "yavlyaetsya", "x", " "}

Texts(k) == UNION {[1..n -> Tokens(k)] : n \in 0..MaxTextLen}

IsWord(t) == t # " "

\* str.strip(): the text without its leading and trailing blanks
RECURSIVE LStrip(_)
LStrip(s) == IF s # <<>> /\ Head(s) = " " THEN LStrip(Tail(s)) ELSE s

RECURSIVE RStrip(_)
RStrip(s) ==
  IF s # <<>> /\ s[Len(s)] = " " THEN RStrip(SubSeq(s, 1, Len(s) - 1)) ELSE s

Strip(s) == LStrip(RStrip(s))

\* \b at position i of s (between s[i-1] and s[i]): exactly one side is a word token
Boundary(s, i) ==
  LET before == i > 1 /\ IsWord(s[i - 1])
      after  == i <= Len(s) /\ IsWord(s[i])
  IN before # after

\* the phrase (a token sequence) occurs in s at position i, between two \b
MatchAt(s, i, phrase) ==
  /\ i + Len(phrase) - 1 <= Len(s)
  /\ SubSeq(s, i, i + Len(phrase) - 1) = phrase
  /\ Boundary(s, i)
  /\ Boundary(s, i + Len(phrase))

Negated == <<"ne", " ", "yavlyaetsya">>
Affirmed == <<"yavlyaetsya">>

\* re.search(pattern, text) with the pattern of _analyze_result, "ne yavlyaetsya"
\* between two \b or "yavlyaetsya" between two \b (transliterated here, the source
\* has them in Cyrillic): the leftmost position where
\* an alternative matches, the first alternative winning at that position.
\* 0 when there is no match.
SearchPos(s) ==
  LET hits == {i \in 1..Len(s) : MatchAt(s, i, Negated) \/ MatchAt(s, i, Affirmed)}
  IN IF hits = {} THEN 0 ELSE CHOOSE i \in hits : \A j \in hits : i <= j

\* a variant of _analyze_result: no match raises UndefinedError
AnalyzeNoMatchUndefined(s) ==
  LET i == SearchPos(s)
  IN IF i = 0 THEN "UndefinedError"
     ELSE IF MatchAt(s, i, Negated) THEN "False" ELSE "True"

\* a variant of _analyze_result: the affirmed word is looked for first, anywhere
AnalyzeAffirmedFirst(s) ==
  IF \E i \in 1..Len(s) : MatchAt(s, i, Affirmed) THEN "True"
  ELSE IF \E i \in 1..Len(s) : MatchAt(s, i, Negated) THEN "False"
  ELSE "ServiceUnavailableError"

\* NpdParser._analyze_result: the value returned, or the error raised
AnalyzeResult(s) ==
  LET i == SearchPos(s)
  IN IF i = 0 THEN "ServiceUnavailableError"
     ELSE IF MatchAt(s, i, Negated) THEN "False" ELSE "True"


\* ---------------------------------------------------------------- state
VARIABLES
  kind,      \* the parser class the caller constructs
  timeout,   \* self.timeout
  implicit,  \* the driver's implicit wait
  launched,  \* webdriver.Chrome(...) started a browser (self.driver is set)
  caller,    \* where the caller is: "new", "ctor_failed", "with", "exited"
  quits,     \* how many times driver.quit() ran
  closes,    \* how many times the caller called close() itself
  pc,        \* the method parse is in: "idle", a method name, "done"
  arg,       \* which call of that method (which field, which marker)
  cond,      \* the condition of any_of being evaluated
  iw,        \* ticks the running find_element has waited implicitly
  waited,    \* ticks since the running WebDriverWait started
  held,      \* the element handle the method holds: "none", "fresh", "stale"
  page,      \* the state of every element of the page
  returned,  \* parse returned a value
  ret,       \* the value parse returned, a text (<<"True">>, <<"False">>, the INN)
  exc,       \* the exception that left parse, "none" if none
  cause,     \* where parse ended and the exception first raised there
  textRead,  \* the .text of the result element was read
  text,      \* that text
  log,       \* the method calls started so far, in order
  visAtWin,  \* the terminal markers visible when the race wait returned
  steady,    \* no terminal marker changed since the race wait returned
  anyShown,  \* a terminal marker was visible at some time during the race wait
  twin       \* two parse runs with different timeouts on one scheduled page

sess == <<kind, timeout, launched, caller, quits, closes, twin>>
prog == <<pc, arg, cond, iw, waited, held>>
out  == <<returned, ret, exc, cause, textRead, text>>
hist == <<visAtWin, steady>>
vars == <<sess, implicit, prog, page, out, log, hist, anyShown>>

Blank == [e \in AllElems |-> "absent"]

NoCause == [at |-> "none", raw |-> "none"]

\* a variant of parse: the form is submitted first, the fields are never filled
FirstIsSubmit(k) ==
  IF k \in {"ArbitrParser", "RomParser"} THEN "_submit_search" ELSE "_submit_form"

\* the first method parse calls
First(k) ==
  CASE k = "ArbitrParser" -> "_close_notification"
    [] k = "RomParser"    -> "_input_inn"
    [] k = "NpdParser"    -> "_fill_inn_field"
    [] k = "InnParser"    -> "_bypass_personal_data_block"

\* the method that waits for a terminal marker
RacePc(k) == IF k = "NpdParser" THEN "_get_result_text" ELSE "_wait_for_result_display"

\* the methods of the validation sub-phase
ValidationPcs == {"_check_entry_validation", "_check_for_errors", "_check_for_captcha"}

\* no scheduled page, no pair of runs
NoTwin == <<>>

\* the state before the caller constructs the parser
InitCaller ==
  /\ timeout \in 1..MaxTimeout
  /\ implicit = 0
  /\ launched = FALSE
  /\ caller = "new"
  /\ quits = 0
  /\ closes = 0
  /\ pc = "idle" /\ arg = 1 /\ cond = 1 /\ iw = 0 /\ waited = 0 /\ held = "none"
  /\ page = Blank
  /\ returned = FALSE /\ ret = <<>> /\ exc = "none" /\ cause = NoCause
  /\ textRead = FALSE /\ text = <<>>
  /\ log = <<>>
  /\ visAtWin = {} /\ steady = TRUE /\ anyShown = FALSE

Init ==
  /\ kind \in Kinds
  /\ twin = NoTwin
  /\ InitCaller

\* ---------------------------------------------------------------- exceptions
\* a variant of the except clauses: TimeoutException mapped to UndefinedError too
ParseExceptTimeoutUndefined(raw) ==
  IF raw \in {"NoSuchElementException", "TimeoutException"} THEN "UndefinedError"
  ELSE raw

\* the except clauses of parse: what leaves parse when raw was raised inside the try
ParseExcept(raw) ==
  IF raw = "NoSuchElementException" THEN "UndefinedError"
  ELSE IF raw = "TimeoutException" THEN "ServiceUnavailableError"
  ELSE raw

\* a variant of the suppress blocks: suppress(Exception) everywhere
SuppressedAll(p, raw) == TRUE

\* a variant of the suppress blocks: those for NoSuchElementException left out
SuppressedTimeoutOnly(p, raw) ==
  /\ p \in {"_close_notification"} \cup ValidationPcs
  /\ raw = "TimeoutException"

\* contextlib.suppress around the body of method p: whether raw is swallowed there
Suppressed(p, raw) ==
  \/ /\ p \in {"_close_notification"} \cup ValidationPcs
     /\ raw = "TimeoutException"
  \/ /\ p \in {"_is_element_displayed", "_find_and_click"}
     /\ raw = "NoSuchElementException"

\* timeout = timeout or self.timeout
OrDefault(t) == IF t = NoTimeout THEN timeout ELSE t

\* the finally clause of InnParser._validate_input: the implicit wait after an
\* exception left method p
\* a variant of _validate_input without the finally clause: the implicit wait is
\* restored only when the checks raise nothing
FinallySkipped(p) == implicit

Finally(p) ==
  IF p \in {"_check_for_errors", "_check_for_captcha"} THEN timeout ELSE implicit

\* ---------------------------------------------------------------- control
\* parse goes on to call number a of method p. The elements that method looks at
\* and the previous one did not are in any state; the elements no method looks at
\* any more are left out of the state (absent).
Jump(p, a) ==
  /\ pc' = p /\ arg' = a /\ cond' = 1 /\ iw' = 0 /\ waited' = 0 /\ held' = "none"
  /\ \E q \in [Live(kind, p, a) \ Live(kind, pc, arg) -> ElemStates] :
       page' = [e \in AllElems |->
                  IF e \in DOMAIN q THEN q[e]
                  ELSE IF e \in Live(kind, p, a) THEN page[e] ELSE "absent"]
  /\ log' = Append(log, [m |-> p, a |-> a])
  /\ anyShown' = IF p = RacePc(kind)
                 THEN \E e \in Terminal(kind) : page'[e] = "visible"
                 ELSE anyShown

Enter(p, a) == Jump(p, a) /\ UNCHANGED <<sess, implicit, out, hist>>

Finish ==
  /\ pc' = "done" /\ arg' = 1 /\ cond' = 1 /\ iw' = 0 /\ waited' = 0 /\ held' = "none"
  /\ page' = Blank
  /\ UNCHANGED <<sess, log, hist, anyShown>>

\* a variant of Raise: the method that raised is called again
RaiseAndRetry(raw) == Enter(pc, arg)

\* raw is raised in the method parse is in and nothing inside parse swallows it
Raise(raw) ==
  /\ Finish
  /\ exc' = ParseExcept(raw)
  /\ cause' = [at |-> pc, raw |-> raw]
  /\ implicit' = Finally(pc)
  /\ UNCHANGED <<returned, ret, textRead, text>>

\* parse returns v
Return(v) ==
  /\ Finish
  /\ returned' = TRUE
  /\ ret' = v
  /\ cause' = [at |-> pc, raw |-> "return"]
  /\ UNCHANGED <<implicit, exc, textRead, text>>

\* raw is raised inside the suppress block named ctx of the method parse is in:
\* swallowed, and the method goes on with Cont, or raised out of parse
Throw(ctx, raw, Cont) ==
  IF Suppressed(ctx, raw) THEN Cont ELSE Raise(raw)

\* ---------------------------------------------------------------- waits
\* One evaluation step of WebDriverWait(driver, t).until(any_of(conds)) and of
\* until(visibility_of_element_located / element_to_be_clickable), at condition
\* number cond: find_element waits implicitly while the element is absent ("tick"),
\* the element is displayed ("found"), the condition is false or raised
\* NoSuchElementException, which until ignores, and the next condition is tried
\* ("next") or the poll sleep follows ("sleep"), after which the time is up ("timeout").
\* The conditions catch StaleElementReferenceException themselves (a stale handle
\* counts as not displayed), so the find_element and the is_displayed of one
\* condition are one look at the page.
PollAt(pg, conds, c, i, imp, w, t) ==
  LET e == conds[c]
  IN IF pg[e] = "visible" THEN "found"
     ELSE IF pg[e] = "absent" /\ i < imp THEN "tick"
     ELSE IF c < Len(conds) THEN "next"
     ELSE IF w + 1 > t THEN "timeout"
     ELSE "sleep"

\* that step of the running parse call
Poll(conds, t) == PollAt(page, conds, cond, iw, implicit, waited, t)

\* a variant of WaitMore: the waits go on polling but never count the time
WaitMoreClockStopped(r) ==
  /\ r \in {"tick", "next", "sleep"}
  /\ cond' = (IF r = "tick" THEN cond ELSE IF r = "next" THEN cond + 1 ELSE 1)
  /\ iw' = iw
  /\ waited' = waited
  /\ UNCHANGED <<sess, implicit, pc, arg, held, page, out, log, hist, anyShown>>

WaitMore(r) ==
  /\ r \in {"tick", "next", "sleep"}
  /\ cond' = (IF r = "tick" THEN cond ELSE IF r = "next" THEN cond + 1 ELSE 1)
  /\ iw' = (IF r = "tick" THEN iw + 1 ELSE 0)
  /\ waited' = (IF r = "next" THEN waited ELSE waited + 1)
  /\ UNCHANGED <<sess, implicit, pc, arg, held, page, out, log, hist, anyShown>>

\* WebDriverWait(self.driver, t).until(...) over the conditions of the method
WaitFor(t, OnFound, OnTimeout) ==
  LET r == Poll(Conds(kind, pc, arg), t)
  IN \/ WaitMore(r)
     \/ r = "found" /\ OnFound
     \/ r = "timeout" /\ OnTimeout

\* BaseParser.wait_for_element_visibility
wait_for_element_visibility(t, OnFound, OnTimeout) ==
  WaitFor(OrDefault(t), OnFound, OnTimeout)

\* BaseParser.wait_for_element_clickable
wait_for_element_clickable(t, OnFound, OnTimeout) ==
  WaitFor(OrDefault(t), OnFound, OnTimeout)

\* the wait returned the element: the method holds its handle
Hold ==
  /\ held' = "fresh"
  /\ UNCHANGED <<sess, implicit, pc, arg, cond, iw, waited, page, out, log, hist,
                 anyShown>>

\* driver.find_element under the implicit wait: the element is in the DOM, or the
\* implicit wait goes on, or it is over (NoSuchElementException)
find_element(OnFound, OnMissing) ==
  LET e == Conds(kind, pc, arg)[1]
  IN \/ page[e] # "absent" /\ OnFound
     \/ /\ page[e] = "absent" /\ iw < implicit
        /\ iw' = iw + 1
        /\ UNCHANGED <<sess, implicit, pc, arg, cond, waited, held, page, out, log,
                       hist, anyShown>>
     \/ page[e] = "absent" /\ iw >= implicit /\ OnMissing

\* A command on the element handle the method holds: execute_script (native FALSE)
\* or click / send_keys (native TRUE). The handle is stale when the element left
\* the DOM since it was found; a native command needs the element displayed.
Command(native, Cont) ==
  LET e == Conds(kind, pc, arg)[1]
  IN IF held = "stale" THEN Raise("StaleElementReferenceException")
     ELSE IF native /\ page[e] # "visible"
          THEN Raise("ElementNotInteractableException")
          ELSE Cont

\* parse ends with the text of the result element read: it returns v ...
EndReturn(v, t) ==
  /\ Finish
  /\ returned' = TRUE
  /\ ret' = v
  /\ cause' = [at |-> pc, raw |-> "return"]
  /\ textRead' = TRUE
  /\ text' = t
  /\ UNCHANGED <<implicit, exc>>

\* ... or raises raw
EndRaise(raw, t) ==
  /\ Finish
  /\ exc' = ParseExcept(raw)
  /\ cause' = [at |-> pc, raw |-> raw]
  /\ implicit' = Finally(pc)
  /\ textRead' = TRUE
  /\ text' = t
  /\ UNCHANGED <<returned, ret>>

\* WebElement.text: what a displayed element shows; a hidden element has no text
ShownTexts(e) == IF page[e] = "visible" THEN Texts(kind) ELSE {<<>>}

\* the race wait returned: classification starts
Resolve ==
  /\ Jump("_is_element_displayed", 1)
  /\ visAtWin' = {e \in Terminal(kind) : page[e] = "visible"}
  /\ steady' = TRUE
  /\ UNCHANGED <<sess, implicit, out>>

\* ---------------------------------------------------------------- the caller
\* how many times the caller calls close() itself
MaxCloses == 1

\* a variant of close: the browser is quit only when no exception left parse
CloseOnSuccessOnly == IF launched /\ exc = "none" THEN quits + 1 ELSE quits

\* BaseParser.close: the number of driver.quit() calls after it
close == IF launched THEN quits + 1 ELSE quits

\* BaseParser.__init__, called by the with statement of main()
Construct ==
  /\ caller = "new"
  /\ \/ launched' = TRUE /\ implicit' = timeout /\ caller' = "with"
     \/ \* driver.get(url) raised
        launched' = TRUE /\ implicit' = timeout /\ caller' = "ctor_failed"
     \/ \* webdriver.Chrome(...) raised
        launched' = FALSE /\ implicit' = implicit /\ caller' = "ctor_failed"
  /\ UNCHANGED <<kind, timeout, quits, closes, twin, prog, page, out, log, hist,
                 anyShown>>

\* a variant of the caller: it calls parse again when parse is over
ParseCallAgain ==
  /\ caller = "with" /\ pc \in {"idle", "done"}
  /\ Enter(First(kind), 1)

\* main(): the parse call inside the with block
ParseCall ==
  /\ caller = "with" /\ pc = "idle"
  /\ Enter(First(kind), 1)

\* a caller that calls close() itself inside the with block, after parse
ExplicitClose ==
  /\ caller = "with" /\ pc = "done" /\ closes < MaxCloses
  /\ quits' = close
  /\ closes' = closes + 1
  /\ UNCHANGED <<kind, timeout, launched, caller, twin, implicit, prog, page, out,
                 log, hist, anyShown>>

\* BaseParser.__exit__: the with block is left, by a return or by an exception
Exit ==
  /\ caller = "with" /\ pc = "done"
  /\ quits' = close
  /\ caller' = "exited"
  /\ UNCHANGED <<kind, timeout, launched, closes, twin, implicit, prog, page, out,
                 log, hist, anyShown>>

\* ---------------------------------------------------------------- the page
\* the page changes one element parse can still look at
PageChange ==
  /\ pc \notin {"idle", "done"}
  /\ \E e \in Live(kind, pc, arg), s \in ElemStates :
       /\ s # page[e]
       /\ page' = [page EXCEPT ![e] = s]
       /\ held' = IF held = "fresh" /\ s = "absent" /\ e = Conds(kind, pc, arg)[1]
                  THEN "stale" ELSE held
       /\ steady' = IF e \in Terminal(kind)
                       /\ (pc = "_is_element_displayed" \/ held # "none")
                    THEN FALSE ELSE steady
       /\ anyShown' = IF pc = RacePc(kind) /\ held = "none"
                      THEN anyShown \/ s = "visible" ELSE anyShown
  /\ UNCHANGED <<sess, implicit, pc, arg, cond, iw, waited, out, log, visAtWin>>

\* ---------------------------------------------------------------- shared methods
\* _is_element_displayed (the same code in ArbitrParser, RomParser, InnParser) for
\* marker number arg of the if/elif chain of _check_result / _parse_result, and the
\* branch taken when it is displayed
is_element_displayed ==
  /\ pc = "_is_element_displayed"
  /\ LET m == ClassifyOrder(kind)[arg]
         o == MarkerOutcome(kind, m)
         Else == IF arg < Len(ClassifyOrder(kind))
                 THEN Enter("_is_element_displayed", arg + 1)
                 ELSE Raise("UndefinedError")
     IN IF held = "none"
        THEN find_element(Hold,
               Throw("_is_element_displayed", "NoSuchElementException", Else))
        ELSE IF held = "stale" THEN Raise("StaleElementReferenceException")
        ELSE IF page[m] # "visible" THEN Else
        ELSE IF o \in DomainErrors THEN Raise(o)
        ELSE IF o = "read" THEN Enter("resultInn", 1)
        ELSE Return(<<o>>)

\* _wait_for_result_display of ArbitrParser, RomParser and InnParser
wait_for_result_display ==
  /\ pc = "_wait_for_result_display"
  /\ WaitFor(timeout, Resolve, Raise("TimeoutException"))

\* ---------------------------------------------------------------- ArbitrParser
Arbitr_close_notification ==
  /\ kind = "ArbitrParser" /\ pc = "_close_notification"
  /\ IF held = "none"
     THEN wait_for_element_clickable(CloseNotificationTimeout, Hold,
            Throw("_close_notification", "TimeoutException", Enter("_input_inn", 1)))
     ELSE Command(TRUE, Enter("_input_inn", 1))

Arbitr_input_inn ==
  /\ kind = "ArbitrParser" /\ pc = "_input_inn"
  /\ IF held = "none"
     THEN wait_for_element_visibility(NoTimeout, Hold, Raise("TimeoutException"))
     ELSE Command(TRUE, Enter("_submit_search", 1))

Arbitr_submit_search ==
  /\ kind = "ArbitrParser" /\ pc = "_submit_search"
  /\ IF held = "none"
     THEN wait_for_element_clickable(NoTimeout, Hold, Raise("TimeoutException"))
     ELSE Command(TRUE, Enter("_wait_for_result_display", 1))

\* ---------------------------------------------------------------- RomParser
Rom_input_inn ==
  /\ kind = "RomParser" /\ pc = "_input_inn"
  /\ IF held = "none"
     THEN wait_for_element_visibility(NoTimeout, Hold, Raise("TimeoutException"))
     ELSE Command(FALSE, Enter("_submit_search", 1))

Rom_submit_search ==
  /\ kind = "RomParser" /\ pc = "_submit_search"
  /\ IF held = "none"
     THEN wait_for_element_clickable(NoTimeout, Hold, Raise("TimeoutException"))
     ELSE Command(FALSE, Enter("_check_entry_validation", 1))

Rom_check_entry_validation ==
  /\ kind = "RomParser" /\ pc = "_check_entry_validation"
  /\ wait_for_element_visibility(ValidationTimeout,
       Throw("_check_entry_validation", "FieldFormatError",
             Enter("_wait_for_result_display", 1)),
       Throw("_check_entry_validation", "TimeoutException",
             Enter("_wait_for_result_display", 1)))

\* ---------------------------------------------------------------- NpdParser
Npd_fill_inn_field ==
  /\ kind = "NpdParser" /\ pc = "_fill_inn_field"
  /\ IF held = "none"
     THEN wait_for_element_visibility(NoTimeout, Hold, Raise("TimeoutException"))
     ELSE Command(FALSE, Enter("_fill_date_field", 1))

Npd_fill_date_field ==
  /\ kind = "NpdParser" /\ pc = "_fill_date_field"
  /\ IF held = "none"
     THEN wait_for_element_visibility(NoTimeout, Hold, Raise("TimeoutException"))
     ELSE Command(FALSE, Enter("_submit_form", 1))

Npd_submit_form ==
  /\ kind = "NpdParser" /\ pc = "_submit_form"
  /\ IF held = "none"
     THEN wait_for_element_clickable(NoTimeout, Hold, Raise("TimeoutException"))
     ELSE Command(FALSE, Enter("_check_entry_validation", 1))

Npd_check_entry_validation ==
  /\ kind = "NpdParser" /\ pc = "_check_entry_validation"
  /\ WaitFor(ValidationTimeout,
       Throw("_check_entry_validation", "FieldFormatError",
             Enter("_get_result_text", 1)),
       Throw("_check_entry_validation", "TimeoutException",
             Enter("_get_result_text", 1)))

\* _get_result_text, and the _analyze_result call of parse on what it returned
Npd_get_result_text ==
  /\ kind = "NpdParser" /\ pc = "_get_result_text"
  /\ IF held = "none"
     THEN WaitFor(timeout,
            /\ held' = "fresh"
            /\ visAtWin' = {e \in Terminal(kind) : page[e] = "visible"}
            /\ steady' = TRUE
            /\ UNCHANGED <<sess, implicit, pc, arg, cond, iw, waited, page, out, log,
                           anyShown>>,
            Raise("TimeoutException"))
     ELSE IF held = "stale" THEN Raise("StaleElementReferenceException")
     ELSE \E t \in ShownTexts("content_div5") :
            LET r == AnalyzeResult(Strip(t))
            IN IF r \in DomainErrors THEN EndRaise(r, t) ELSE EndReturn(<<r>>, t)

\* ---------------------------------------------------------------- InnParser
\* _find_and_click on the locator of the method parse is in
find_and_click(Clicked, Missing) ==
  IF held = "none"
  THEN find_element(Hold, Throw("_find_and_click", "NoSuchElementException", Missing))
  ELSE Command(FALSE, Clicked)

\* a variant of _bypass_personal_data_block: the result of the first click is not
\* looked at, the confirm click is always attempted
Inn_bypass_always_confirms ==
  /\ kind = "InnParser" /\ pc = "_bypass_personal_data_block"
  /\ find_and_click(
       IF arg = 1 THEN Enter("_bypass_personal_data_block", 2)
       ELSE Enter("_fill_field", 1),
       IF arg = 1 THEN Enter("_bypass_personal_data_block", 2)
       ELSE Enter("_fill_field", 1))

Inn_bypass_personal_data_block ==
  /\ kind = "InnParser" /\ pc = "_bypass_personal_data_block"
  /\ find_and_click(
       IF arg = 1 THEN Enter("_bypass_personal_data_block", 2)
       ELSE Enter("_fill_field", 1),
       Enter("_fill_field", 1))

\* _fill_field, called by _fill_personal_info for each field in turn
Inn_fill_field ==
  /\ kind = "InnParser" /\ pc = "_fill_field"
  /\ IF held = "none"
     THEN wait_for_element_visibility(NoTimeout, Hold, Raise("TimeoutException"))
     ELSE Command(FALSE,
            IF arg < Len(InnFields) THEN Enter("_fill_field", arg + 1)
            ELSE Enter("_submit_form", 1))

\* _validate_input starts: driver.implicitly_wait(0), then _check_for_errors
ValidateInput ==
  /\ Jump("_check_for_errors", 1)
  /\ implicit' = 0
  /\ UNCHANGED <<sess, out, hist>>

Inn_submit_form ==
  /\ kind = "InnParser" /\ pc = "_submit_form"
  /\ find_and_click(ValidateInput, ValidateInput)

Inn_check_for_errors ==
  /\ kind = "InnParser" /\ pc = "_check_for_errors"
  /\ wait_for_element_visibility(ValidationTimeout,
       Throw("_check_for_errors", "FieldFormatError", Enter("_check_for_captcha", 1)),
       Throw("_check_for_errors", "TimeoutException", Enter("_check_for_captcha", 1)))

\* _validate_input ends without an exception: the finally clause, then _parse_result
ValidateInputEnd ==
  /\ Jump("_wait_for_result_display", 1)
  /\ implicit' = timeout
  /\ UNCHANGED <<sess, out, hist>>

Inn_check_for_captcha ==
  /\ kind = "InnParser" /\ pc = "_check_for_captcha"
  /\ wait_for_element_visibility(CaptchaTimeout,
       Throw("_check_for_captcha", "ServiceCaptchaError", ValidateInputEnd),
       Throw("_check_for_captcha", "TimeoutException", ValidateInputEnd))

\* a variant of the returned value: the text stripped of blanks
InnResultStripped(t) == Strip(t)

\* the value _parse_result returns for the text t of resultInn
InnResult(t) == t

\* _parse_result, result_1 displayed: driver.find_element(resultInn).text
Inn_read_resultInn ==
  /\ kind = "InnParser" /\ pc = "resultInn"
  /\ IF held = "none"
     THEN find_element(Hold, Raise("NoSuchElementException"))
     ELSE IF held = "stale" THEN Raise("StaleElementReferenceException")
     ELSE \E t \in ShownTexts("resultInn") : EndReturn(InnResult(t), t)

\* ---------------------------------------------------------------- specification
Next ==
  \/ Construct
  \/ ParseCall
  \/ ExplicitClose
  \/ Exit
  \/ PageChange
  \/ is_element_displayed
  \/ wait_for_result_display
  \/ Arbitr_close_notification
  \/ Arbitr_input_inn
  \/ Arbitr_submit_search
  \/ Rom_input_inn
  \/ Rom_submit_search
  \/ Rom_check_entry_validation
  \/ Npd_fill_inn_field
  \/ Npd_fill_date_field
  \/ Npd_submit_form
  \/ Npd_check_entry_validation
  \/ Npd_get_result_text
  \/ Inn_bypass_personal_data_block
  \/ Inn_fill_field
  \/ Inn_submit_form
  \/ Inn_check_for_errors
  \/ Inn_check_for_captcha
  \/ Inn_read_resultInn

Spec == Init /\ [][Next]_vars

\* a step of the running parse call: the interpreter executes the method parse is in
ParseStep ==
  \/ is_element_displayed
  \/ wait_for_result_display
  \/ Arbitr_close_notification
  \/ Arbitr_input_inn
  \/ Arbitr_submit_search
  \/ Rom_input_inn
  \/ Rom_submit_search
  \/ Rom_check_entry_validation
  \/ Npd_fill_inn_field
  \/ Npd_fill_date_field
  \/ Npd_submit_form
  \/ Npd_check_entry_validation
  \/ Npd_get_result_text
  \/ Inn_bypass_personal_data_block
  \/ Inn_fill_field
  \/ Inn_submit_form
  \/ Inn_check_for_errors
  \/ Inn_check_for_captcha
  \/ Inn_read_resultInn

\* The running parse call is never starved: a WebDriver command returns, and time
\* passes while a wait polls or sleeps, whatever the page does meanwhile.
FairSpec == Spec /\ WF_vars(ParseStep)

\* ---------------------------------------------------------------- two runs, one page
\* Two parse calls of the same workflow that differ only in the session timeout, each
\* on its own fresh session, against one page behaviour given as a schedule: every
\* result marker (and the rejection marker of RomParser) appears at its tick, counted
\* from the start of parse, and is displayed from then on; every other element the
\* workflow uses is displayed from the start. A command takes no time; a tick
\* passes with every poll of the implicit wait and every poll sleep, SleepTicks with
\* every time.sleep of ArbitrParser (the same pause in both runs).
TwinKinds == {"ArbitrParser", "RomParser"}

Timed(k) == Terminal(k) \cup (IF k = "RomParser" THEN {"field-errors"} ELSE {})

Schedules(k) == [Timed(k) -> 0..Horizon]

\* the page at tick n
PageAt(k, sched, n) ==
  [e \in AllElems |-> IF e \in Timed(k) /\ sched[e] > n THEN "absent" ELSE "visible"]

\* a run about to call the first method of parse, on a session built with timeout T
\* (BaseParser.__init__: self.timeout and the implicit wait are both T)
NewRun(k, T) ==
  [T |-> T, pc |-> First(k), arg |-> 1, cond |-> 1, iw |-> 0, waited |-> 0,
   now |-> 0, res |-> "none"]

InitTwin ==
  /\ kind \in TwinKinds
  /\ InitCaller
  /\ \E s \in Schedules(kind), T2 \in (timeout + 1)..(MaxTimeout + 1) :
       twin = [sched |-> s, a |-> NewRun(kind, timeout), b |-> NewRun(kind, T2)]

\* parse of ArbitrParser and of RomParser: the method called after method p returned
NextMethod(k, p) ==
  CASE p = "_close_notification" -> "_input_inn"
    [] p = "_input_inn" -> "_submit_search"
    [] p = "_submit_search" ->
         IF k = "ArbitrParser" THEN "_wait_for_result_display"
         ELSE "_check_entry_validation"
    [] p = "_check_entry_validation" -> "_wait_for_result_display"
    [] OTHER -> "_is_element_displayed"

\* the timeout of the WebDriverWait of method p on a session with timeout T
WaitTimeout(p, T) ==
  CASE p = "_close_notification" -> CloseNotificationTimeout
    [] p = "_check_entry_validation" -> ValidationTimeout
    [] OTHER -> T

\* one step of the run r of workflow k on the scheduled page: the run after it
RunStep(k, r, sched) ==
  LET pg == PageAt(k, sched, r.now)
      Go(p, n) == [r EXCEPT !.pc = p, !.arg = n, !.cond = 1, !.iw = 0, !.waited = 0]
      End(o) == [Go("done", 1) EXCEPT !.res = o]
      Tick == [r EXCEPT !.iw = @ + 1, !.waited = @ + 1, !.now = @ + 1]
      Swallow(raw, cont) == IF Suppressed(r.pc, raw) THEN cont ELSE End(ParseExcept(raw))
      Pause == IF k = "ArbitrParser" /\ r.pc # "_wait_for_result_display"
               THEN SleepTicks ELSE 0
  IN IF r.pc = "_is_element_displayed"
     THEN LET m == ClassifyOrder(k)[r.arg]
              Else == IF r.arg < Len(ClassifyOrder(k))
                      THEN Go("_is_element_displayed", r.arg + 1)
                      ELSE End("UndefinedError")
          IN IF pg[m] = "absent"
             THEN IF r.iw < r.T THEN Tick
                  ELSE Swallow("NoSuchElementException", Else)
             ELSE IF pg[m] = "visible" THEN End(MarkerOutcome(k, m)) ELSE Else
     ELSE LET step == PollAt(pg, Conds(k, r.pc, r.arg), r.cond, r.iw, r.T, r.waited,
                             WaitTimeout(r.pc, r.T))
          IN CASE step = "tick" -> Tick
               [] step = "next" -> [r EXCEPT !.cond = @ + 1, !.iw = 0]
               [] step = "sleep" ->
                    [r EXCEPT !.cond = 1, !.iw = 0, !.waited = @ + 1, !.now = @ + 1]
               [] step = "found" ->
                    IF r.pc = "_check_entry_validation"
                    THEN Swallow("FieldFormatError", Go(NextMethod(k, r.pc), 1))
                    ELSE [Go(NextMethod(k, r.pc), 1) EXCEPT !.now = @ + Pause]
               [] OTHER -> Swallow("TimeoutException", Go(NextMethod(k, r.pc), 1))

\* the run with the smaller timeout takes a step
TwinFirst ==
  /\ twin.a.pc # "done"
  /\ twin' = [twin EXCEPT !.a = RunStep(kind, twin.a, twin.sched)]
  /\ UNCHANGED <<kind, timeout, launched, caller, quits, closes, implicit, prog, page,
                 out, log, hist, anyShown>>

\* then the run with the larger timeout, on the same page behaviour
TwinSecond ==
  /\ twin.a.pc = "done" /\ twin.b.pc # "done"
  /\ twin' = [twin EXCEPT !.b = RunStep(kind, twin.b, twin.sched)]
  /\ UNCHANGED <<kind, timeout, launched, caller, quits, closes, implicit, prog, page,
                 out, log, hist, anyShown>>

NextTwin == TwinFirst \/ TwinSecond

SpecTwin == InitTwin /\ [][NextTwin]_vars

\* ---------------------------------------------------------------- _analyze_result
\* NpdParser._analyze_result on its own, a static method: called with any text, not
\* only with what a result element of the modelled page size shows.
\* longest text (in tokens) it is called with
AnalyzeLen == 5

AnalyzeTexts == UNION {[1..n -> Tokens("NpdParser")] : n \in 0..AnalyzeLen}

InitAnalyze ==
  /\ kind = "NpdParser"
  /\ twin = NoTwin
  /\ timeout = 1
  /\ implicit = 0
  /\ launched = FALSE
  /\ caller = "new"
  /\ quits = 0
  /\ closes = 0
  /\ pc = "idle" /\ arg = 1 /\ cond = 1 /\ iw = 0 /\ waited = 0 /\ held = "none"
  /\ page = Blank
  /\ returned = FALSE /\ ret = <<>> /\ exc = "none" /\ cause = NoCause
  /\ textRead = FALSE /\ text \in AnalyzeTexts
  /\ log = <<>>
  /\ visAtWin = {} /\ steady = TRUE /\ anyShown = FALSE

\* NpdParser._analyze_result(text) is called: it returns a boolean or raises
Analyze ==
  /\ pc = "idle"
  /\ pc' = "done"
  /\ LET r == AnalyzeResult(text)
     IN IF r \in DomainErrors
        THEN exc' = r /\ UNCHANGED <<returned, ret>>
        ELSE returned' = TRUE /\ ret' = <<r>> /\ exc' = exc
  /\ cause' = [at |-> "_analyze_result", raw |-> "return"]
  /\ UNCHANGED <<sess, implicit, arg, cond, iw, waited, held, page, textRead, text,
                 log, hist, anyShown>>

SpecAnalyze == InitAnalyze /\ [][Analyze]_vars

\* ---------------------------------------------------------------- properties
Done == pc = "done"

\* the race wait was started in this run
RaceStarted(l) == \E i \in 1..Len(l) : l[i].m = RacePc(kind)

\* the methods that wait for a required element of the form (field or submit button)
StepPcs ==
  {"_input_inn", "_submit_search", "_fill_inn_field", "_fill_date_field",
   "_submit_form", "_fill_field"}

\* the run raised the domain error e and returned nothing
Raised(e) == exc = e /\ ~returned

\* the run returned v and raised nothing
Returned(v) == returned /\ ret = v /\ exc = "none"

\* C1: one parse call ends in exactly one of a returned value or one raised domain
\* error, never both and never neither, for every behaviour of the page.
C1_ExactlyOneOutcome ==
  Done => \/ returned /\ exc = "none"
          \/ ~returned /\ exc \in DomainErrors

\* the no-results and the results marker of the boolean-lookup workflows
NoResults(k) == IF k = "ArbitrParser" THEN "b-noResults" ELSE "pnlNoData"
Results(k) == IF k = "ArbitrParser" THEN "b-results" ELSE "pnlData"

\* C2: in ArbitrParser and RomParser, when the race wait returned with only the
\* no-results marker displayed and the markers stay as they are, parse returns
\* False; with only the results marker displayed, parse returns True.
C2_BooleanLookup ==
  (Done /\ kind \in {"ArbitrParser", "RomParser"} /\ steady)
    => /\ visAtWin = {NoResults(kind)} => Returned(<<"False">>)
       /\ visAtWin = {Results(kind)} => Returned(<<"True">>)

C2_Witness ==
  /\ Done /\ kind = "RomParser" /\ steady
  /\ visAtWin = {"pnlData"}
  /\ Returned(<<"True">>)

\* the outcome the branch of marker m stands for: the value returned or the error
\* raised; for result_1 the text of resultInn as read (when the page has no
\* resultInn element to read, or drops it before its text is read, nothing is
\* returned: find_element or .text raises)
OutcomeIs(m) ==
  CASE m \in {"b-noResults", "pnlNoData"} -> Returned(<<"False">>)
    [] m \in {"b-results", "pnlData"} -> Returned(<<"True">>)
    [] m = "result_0" -> Raised("InnNotFoundError")
    [] m = "result_1" ->
         IF textRead THEN Returned(text)
         ELSE ~returned /\ exc \in {"UndefinedError", "StaleElementReferenceException"}
    [] m = "result_3" -> Raised("DataVerificationError")
    [] m = "result_err" -> Raised("ServiceUnavailableError")
    [] OTHER -> FALSE

\* C3: in InnParser, when exactly one terminal marker is displayed after the race
\* (and the markers stay as they are), that marker fixes the outcome: result_1
\* returns exactly the text read from resultInn, result_0 raises InnNotFoundError,
\* result_3 DataVerificationError, result_err ServiceUnavailableError.
C3_SingleMarkerOutcome ==
  (Done /\ kind = "InnParser" /\ steady)
    => \A m \in Terminal(kind) : visAtWin = {m} => OutcomeIs(m)

C3_Witness ==
  /\ Done /\ kind = "InnParser" /\ steady
  /\ visAtWin = {"result_1"}
  /\ textRead /\ text = <<" ", "123456789012">>
  /\ Returned(<<" ", "123456789012">>)

\* C4: in every workflow, when the steps and the validation passed (the race wait
\* was started) and no terminal marker was displayed at any time of the race wait,
\* parse raises ServiceUnavailableError and returns no value.
C4_RaceTimeout ==
  (Done /\ RaceStarted(log) /\ ~anyShown) => Raised("ServiceUnavailableError")

C4_Witness ==
  /\ Done /\ kind = "InnParser" /\ RaceStarted(log) /\ ~anyShown
  /\ cause = [at |-> "_wait_for_result_display", raw |-> "TimeoutException"]
  /\ Raised("ServiceUnavailableError")

\* the validation wait of RomParser, NpdParser or InnParser sees a rejection marker
\* displayed at the poll it is about to make
RejectionSeen ==
  /\ pc \in {"_check_entry_validation", "_check_for_errors"}
  /\ Poll(Conds(kind, pc, arg), ValidationTimeout) = "found"

\* C5: when a rejection marker is displayed at a poll of the validation wait, the
\* step parse takes there ends the run with FieldFormatError (suppress does not
\* swallow it) and the race wait was never started in that run.
C5_ValidationRejects ==
  [][(RejectionSeen /\ pc' # pc)
       => (pc' = "done" /\ exc' = "FieldFormatError" /\ ~returned'
           /\ ~RaceStarted(log'))]_vars

C5_Witness ==
  /\ Done /\ kind = "NpdParser"
  /\ cause = [at |-> "_check_entry_validation", raw |-> "FieldFormatError"]
  /\ Raised("FieldFormatError")
  /\ ~RaceStarted(log)

\* the order in which each workflow's if/elif chain checks its markers
DeclaredOrder(k) ==
  CASE k = "ArbitrParser" -> <<"b-noResults", "b-results">>
    [] k = "RomParser"    -> <<"pnlNoData", "pnlData">>
    [] k = "NpdParser"    -> <<"content_div5">>
    [] k = "InnParser"    -> <<"result_0", "result_1", "result_3", "result_err">>

\* the first marker of the declared order among those of the set s
FirstOf(k, s) ==
  LET o == DeclaredOrder(k)
      i == CHOOSE i \in 1..Len(o) :
             o[i] \in s /\ \A j \in 1..(i - 1) : o[j] \notin s
  IN o[i]

\* C6: whenever two (or more) terminal markers are displayed when the race wait
\* returns (and the markers stay as they are), the outcome is that of the marker
\* checked first in the workflow's declared order, whatever the order in which the
\* markers appeared and whatever poll noticed them.
C6_RaceDeterminism ==
  (Done /\ kind # "NpdParser" /\ steady /\ Cardinality(visAtWin) >= 2)
    => OutcomeIs(FirstOf(kind, visAtWin))

C6_Witness ==
  /\ Done /\ kind = "RomParser" /\ steady
  /\ visAtWin = {"pnlData", "pnlNoData"}
  /\ Returned(<<"False">>)

\* C7: in InnParser, if result_1 is displayed together with result_3 or result_err
\* (and result_0 is not), parse raises the error and does not return the INN value.
C7_ErrorBeforeSuccess ==
  (Done /\ kind = "InnParser" /\ steady
   /\ "result_1" \in visAtWin /\ "result_0" \notin visAtWin
   /\ visAtWin \cap {"result_3", "result_err"} # {})
    => ~returned

\* the text _analyze_result got holds neither known phrase
NeitherPhrase == SearchPos(Strip(text)) = 0

C9_StepTimeoutUndefined ==
  (Done /\ cause.at \in StepPcs /\ cause.raw = "TimeoutException")
    => /\ Raised("UndefinedError")
       /\ log[Len(log)].m = cause.at

\* C10: through the context manager (and with no close() call of the caller's own)
\* the browser is quit exactly once when the with block is left, whether parse
\* returned, raised a domain error or let another exception escape, and it is not
\* quit before that: parse never closes the session.
C10_QuitOnceOnExit ==
  closes = 0 => /\ caller = "exited" => quits = 1
                /\ caller = "with" => quits = 0

C10_Witness ==
  /\ caller = "exited" /\ closes = 0 /\ quits = 1
  /\ exc = "StaleElementReferenceException"

\* the methods that dispatch the form
SubmitPcs == {"_submit_search", "_submit_form"}

\* C11: within one parse call no method call is made twice (nothing is retried), the
\* form is submitted at most once, and an exception that leaves a method ends the
\* run there: parse is over, no later method was called, and the exception (mapped
\* by the except clauses of parse) is what the caller of parse gets.
C11_NoRetry ==
  /\ \A i, j \in 1..Len(log) : log[i] = log[j] => i = j
  /\ Cardinality({i \in 1..Len(log) : log[i].m \in SubmitPcs}) <= 1
  /\ exc # "none" =>
       /\ Done /\ ~returned
       /\ log[Len(log)].m = cause.at
       /\ exc \in {cause.raw, "UndefinedError", "ServiceUnavailableError"}

C11_Witness ==
  /\ Done /\ kind = "InnParser"
  /\ Raised("ServiceCaptchaError")
  /\ Len(log) = 10
  /\ log[8].m = "_submit_form"

\* C12: of two runs of one workflow on the same page behaviour that differ only in
\* the session timeout, either both end with the same outcome or the run with the
\* smaller timeout ends with ServiceUnavailableError.
C12_TimeoutMonotone ==
  (twin.a.pc = "done" /\ twin.b.pc = "done")
    => \/ twin.a.res = twin.b.res
       \/ twin.a.res = "ServiceUnavailableError"

\* C13: every parse call terminates: once parse was called, the run eventually is
\* over (a value returned or an exception raised), whatever the page does, also on
\* a page that never shows any element.
C13_Terminates == (pc # "idle") ~> Done

\* a run on a page that never showed anything ended, at the first wait
C13_Witness ==
  /\ Done /\ kind = "RomParser" /\ Len(log) = 1
  /\ cause = [at |-> "_input_inn", raw |-> "TimeoutException"]
  /\ timeout = MaxTimeout

\* the lookup of the element of a required step (a field, the submit button) is
\* about to fail because the element is not in the DOM: the wait of the step is at
\* its last poll, or the find_element of _find_and_click has waited long enough
RequiredElementMissing ==
  /\ pc \in StepPcs /\ held = "none"
  /\ page[Conds(kind, pc, arg)[1]] = "absent"
  /\ IF kind = "InnParser" /\ pc = "_submit_form"
     THEN iw >= implicit
     ELSE Poll(Conds(kind, pc, arg), timeout) = "timeout"

\* C14: in every workflow, when the element of a required step is missing the step
\* parse takes there ends the run with a domain error; the run never goes on to the
\* validation and the race as if the step had been done.
C14_MissingElementReported ==
  [][(RequiredElementMissing /\ pc' # pc)
       => (pc' = "done" /\ exc' \in DomainErrors /\ ~returned')]_vars

\* the parse runs started on the session so far
ParseRuns == {i \in 1..Len(log) : log[i] = [m |-> First(kind), a |-> 1]}

CaptchaShowing ==
  /\ kind = "InnParser" /\ pc \notin {"idle", "done"}
  /\ page["uniDialogData"] = "visible"
  /\ page["field-errors"] # "visible"
  /\ \A m \in Terminal(kind) : page[m] # "visible"

\* C16: in InnParser, a run that ends while the page shows the captcha dialog (and no
\* rejection or result marker) ends with ServiceCaptchaError, never with another
\* outcome such as ServiceUnavailableError.
C16_CaptchaReported ==
  [][(CaptchaShowing /\ pc' = "done")
       => (exc' = "ServiceCaptchaError" /\ ~returned')]_vars

\* the place of a method in the declared order of a workflow: optional dismissal,
\* the field fills, the submit, the validation checks, the race, the classification
StepRank(m) ==
  CASE m \in {"_close_notification", "_bypass_personal_data_block"} -> 1
    [] m \in {"_input_inn", "_fill_inn_field", "_fill_field"} -> 2
    [] m = "_fill_date_field" -> 3
    [] m \in SubmitPcs -> 4
    [] m \in {"_check_entry_validation", "_check_for_errors"} -> 5
    [] m = "_check_for_captcha" -> 6
    [] m \in {"_wait_for_result_display", "_get_result_text"} -> 7
    [] m = "_is_element_displayed" -> 8
    [] OTHER -> 9

\* the calls that fill the fields of the form of workflow k
FieldFills(k) ==
  CASE k = "InnParser" -> {[m |-> "_fill_field", a |-> n] : n \in 1..Len(InnFields)}
    [] k = "NpdParser" -> {[m |-> "_fill_inn_field", a |-> 1],
                           [m |-> "_fill_date_field", a |-> 1]}
    [] OTHER -> {[m |-> "_input_inn", a |-> 1]}

\* the validation checks of workflow k
ValidationChecks(k) ==
  CASE k = "InnParser" -> {"_check_for_errors", "_check_for_captcha"}
    [] k = "ArbitrParser" -> {}
    [] OTHER -> {"_check_entry_validation"}

\* the calls made before call number i of the run
Before(i) == {log[j] : j \in 1..(i - 1)}

\* C17: the method calls of one parse run are made in the declared order: each call
\* is either the next call of the same method (the next field, the next marker) or
\* a method later in the order; the submit is called only after every field fill,
\* and the race only after every validation check of the workflow was called (and,
\* parse being over or further on, has finished).
C17_DeclaredOrder ==
  /\ \A i \in 1..(Len(log) - 1) :
       \/ StepRank(log[i].m) < StepRank(log[i + 1].m)
       \/ log[i + 1].m = log[i].m /\ log[i + 1].a = log[i].a + 1
  /\ \A i \in 1..Len(log) :
       /\ log[i].m \in SubmitPcs => FieldFills(kind) \subseteq Before(i)
       /\ log[i].m = RacePc(kind) =>
            /\ ValidationChecks(kind) \subseteq {c.m : c \in Before(i)}
            /\ \E c \in Before(i) : c.m \in SubmitPcs
  /\ pc \notin {"idle", "done"} => log[Len(log)] = [m |-> pc, a |-> arg]

C17_Witness ==
  /\ Done /\ kind = "InnParser" /\ Raised("DataVerificationError")
  /\ Len(log) = 14
  /\ log[14] = [m |-> "_is_element_displayed", a |-> 3]

\* the methods of the optional dismissal
DismissPcs == {"_close_notification", "_bypass_personal_data_block"}

\* the lookup of the optional element is about to fail because the element is not
\* in the DOM: the 5-tick wait of _close_notification is at its last poll, or the
\* find_element of _find_and_click has waited long enough
DismissMissing ==
  /\ pc \in DismissPcs /\ held = "none"
  /\ page[Conds(kind, pc, arg)[1]] = "absent"
  /\ IF kind = "ArbitrParser"
     THEN Poll(Conds(kind, pc, arg), CloseNotificationTimeout) = "timeout"
     ELSE iw >= implicit

\* the method parse calls after the dismissal
AfterDismiss(k) == IF k = "ArbitrParser" THEN "_input_inn" ELSE "_fill_field"

\* C18: when the optional element is absent, the dismissal is skipped without an
\* error and parse goes on with the first step after it; when the close button of
\* ArbitrParser was found and is still displayed, it is clicked and parse goes on;
\* in InnParser the confirm click (btnContinue) is attempted exactly when unichk_0
\* was found and clicked.
C18_ConditionalDismiss ==
  [][(pc \in DismissPcs /\ <<pc, arg>>' # <<pc, arg>>) =>
       /\ DismissMissing =>
            (exc' = "none" /\ pc' = AfterDismiss(kind) /\ arg' = 1)
       /\ (kind = "ArbitrParser" /\ held = "fresh" /\ page["close_btn"] = "visible") =>
            (exc' = "none" /\ pc' = "_input_inn")
       /\ (kind = "InnParser" /\ arg = 1) =>
            ((pc' = "_bypass_personal_data_block" /\ arg' = 2) <=> held = "fresh")
    ]_vars

C18_Witness ==
  /\ kind = "InnParser" /\ Len(log) >= 3 /\ pc = "_fill_field" /\ exc = "none"
  /\ log[2] = [m |-> "_bypass_personal_data_block", a |-> 2]
  /\ log[3] = [m |-> "_fill_field", a |-> 1]

\* C19: in the workflows that classify by re-checking the markers, if exactly one
\* terminal marker is displayed when the race wait returns, the run ends with the
\* outcome of that marker, whatever the page does afterwards.
C19_WinnerDecides ==
  (Done /\ kind # "NpdParser")
    => \A m \in Terminal(kind) : visAtWin = {m} => OutcomeIs(m)

\* C20: the validation check of RomParser and of NpdParser is over within its own
\* short bound: while parse is in _check_entry_validation, no more than
\* ValidationTimeout ticks have passed since the check started, whatever the session
\* timeout (and with it the implicit wait) is.
C20_ValidationTimeBoxed ==
  (kind \in {"RomParser", "NpdParser"} /\ pc = "_check_entry_validation")
    => waited <= ValidationTimeout

\* C21: over any sequence of close() calls and the exit of the with block on one
\* parser, the browser is quit at most once.
C21_QuitAtMostOnce == quits <= 1

\* C22: when the constructor launched the browser and then failed (the navigation
\* to the service URL raised), the launched browser is quit.
C22_QuitOnFailedConstruction ==
  (caller = "ctor_failed" /\ launched) => quits = 1

\* the two checks of InnParser._validate_input
InnChecks == {"_check_for_errors", "_check_for_captcha"}

\* C23: InnParser._validate_input sets the implicit wait to 0 for its two checks and
\* restores it to the session timeout on every exit: the implicit wait is 0 exactly
\* while parse is in the checks, and equals the session timeout in every other
\* state of the session (before the checks, during the race and the
\* classification, and when parse is over, whether it returned or raised
\* FieldFormatError, ServiceCaptchaError or anything else).
C23_ImplicitWaitRestored ==
  (kind = "InnParser" /\ launched)
    => implicit = (IF pc \in InnChecks THEN 0 ELSE timeout)

C23_Witness ==
  /\ Done /\ kind = "InnParser" /\ timeout = MaxTimeout
  /\ cause = [at |-> "_check_for_errors", raw |-> "FieldFormatError"]
  /\ implicit = timeout

\* the places of a text where the negated phrase stands as whole words, and those
\* where the affirmed word stands as a whole word without being the second word of
\* a negated phrase
NegatedAt(s) == {i \in 1..Len(s) : MatchAt(s, i, Negated)}
AffirmedAt(s) ==
  {i \in 1..Len(s) :
     MatchAt(s, i, Affirmed) /\ ~(i > 2 /\ MatchAt(s, i - 2, Negated))}

\* the leftmost place of the set a is to the left of every place of the set b
LeftOf(a, b) == \E i \in a : \A j \in b : i < j

\* C24: _analyze_result is decided by the text alone, by its leftmost whole-word
\* phrase: it returns False when the leftmost phrase is the negated one, True when
\* it is an affirmed word that is not part of a negated phrase, and one of the two for
\* every text that holds a phrase; the affirmed word inside a negated phrase never
\* makes the result True.
C24_LeftmostPhraseDecides ==
  Done =>
    /\ LeftOf(NegatedAt(text), AffirmedAt(text)) => Returned(<<"False">>)
    /\ LeftOf(AffirmedAt(text), NegatedAt(text)) => Returned(<<"True">>)
    /\ (NegatedAt(text) \cup AffirmedAt(text) # {}) => returned
    /\ (NegatedAt(text) # {} /\ AffirmedAt(text) = {}) => ~Returned(<<"True">>)

\* the affirmed word stands only inside the negated phrase: False
C24_Witness ==
  /\ Done /\ text = <<"x", " ", "ne", " ", "yavlyaetsya">>
  /\ Returned(<<"False">>)

====
